---------------------------- MODULE Spec2Model ----------------------------
(***************************************************************************)
(* Langfuse filter pipeline: the trace correlation and lifecycle state     *)
(* machine of the two variants of the adapter,                             *)
(*   variant 1  src/pipelines-1.py  (strict:    backend errors re-raised)  *)
(*   variant 3  src/pipelines-3.py  (defensive: backend errors swallowed). *)
(* A Pipeline instance holds chat_traces (conversation key -> trace        *)
(* handle), model_names (conversation key -> model record), the backend    *)
(* client langfuse and the valves.  One action per handler: on_startup,    *)
(* on_valves_updated, on_shutdown, inlet, outlet.                          *)
(*                                                                         *)
(* Python values: strings are TLA+ strings, the f-string                   *)
(* f"temporary-session-{session_id}" is string concatenation, None and an  *)
(* absent dict key are both the sentinel NONE (dict.get returns None for   *)
(* an absent key; no input carries an explicit null).                      *)
(***************************************************************************)
EXTENDS Naturals, Sequences, FiniteSets, TLC

(* ------------------------------ bounds --------------------------------- *)
\* handler calls (inlet/outlet) in one behaviour
MaxCalls == 2
\* fresh uuid4 values drawn in one behaviour
MaxUuid == 2
\* Langfuse client objects constructed in one behaviour
MaxClients == 2
\* the largest token count a usage sub-object carries
MaxTokens == 2
\* inlet calls the host runs concurrently
MaxProcs == 2
\* handler calls in one behaviour of the model-record specification
MaxModelCalls == 3

(* ------------------------------ values --------------------------------- *)
NONE == "None"

\* uuid.uuid4(): the n-th fresh value; never equal to an input string
Uuid(n) == "uuid-" \o ToString(n)

\* f"temporary-session-{session_id}"
TempId(session_id) == "temporary-session-" \o session_id

\* self.GENERATION_TASKS
GENERATION_TASKS == {"llm_response"}

\* the handle of no trace
NoHandle == [key |-> NONE, n |-> 0, client |-> 0]

\* dict assignment d[k] = v
Put(d, k, v) == [x \in (DOMAIN d) \cup {k} |-> IF x = k THEN v ELSE d[x]]

\* the empty dict {}
EmptyDict == [x \in {} |-> NONE]

\* body.get("metadata", {}) of a body without metadata
NoMetadata ==
    [present |-> FALSE, chat_id |-> NONE, session_id |-> NONE, task |-> NONE,
     type |-> NONE, interface |-> NONE, model_name |-> NONE]

\* the usage sub-object of a message: a token count is <<>> when its key is
\* absent and <<n>> when it is the integer n; no usage key is the dict {}
NoInfo ==
    [prompt_eval_count |-> <<>>, prompt_tokens |-> <<>>, eval_count |-> <<>>,
     completion_tokens |-> <<>>]

\* a request/response body; a field that is NONE is an absent key; messages
\* is the list body["messages"] when has_messages, each message its role
\* and its usage sub-object
NoBody ==
    [chat_id |-> NONE, session_id |-> NONE, metadata |-> NoMetadata,
     model |-> NONE, has_messages |-> FALSE, has_input |-> FALSE,
     messages |-> <<>>]

(* ------------------------------ state ---------------------------------- *)
VARIABLES
    variant,      \* 1: pipelines-1.py, 3: pipelines-3.py
    valves,       \* [insert_tags, use_model_name]
    langfuse,     \* 0: None, n > 0: the n-th Langfuse client object
    chat_traces,  \* self.chat_traces
    model_names,  \* self.model_names
    nUuid,        \* uuid4 values drawn so far
    nClients,     \* Langfuse objects constructed so far
    nCalls,       \* inlet/outlet calls made so far
    opens,        \* history: key -> number of langfuse.trace calls made for it
    failedEver,   \* history: some backend call has failed
    retry,        \* history: keys whose latest langfuse.trace call raised
    last,         \* history: what the last handler call did
    running       \* the inlet calls the host runs concurrently: their locals

vars == <<variant, valves, langfuse, chat_traces, model_names, nUuid, nClients,
          nCalls, opens, failedEver, retry, last, running>>

(* --------------------------- pure helpers ------------------------------ *)
\* Python's `a or b` on a value that is None/absent or a non-empty string
Or(a, b) == IF a # NONE THEN a ELSE b

\* Python's `a or b` on token counts: a is falsy when absent and when 0
OrCount(a, b) == IF a # <<>> /\ a[1] # 0 THEN a ELSE b

\* get_last_assistant_message_obj(messages): {} when there is none
RECURSIVE get_last_assistant_message_obj(_)
get_last_assistant_message_obj(messages) ==
    IF messages = <<>> THEN <<>>
    ELSE IF messages[Len(messages)].role = "assistant"
    THEN <<messages[Len(messages)]>>
    ELSE get_last_assistant_message_obj(SubSeq(messages, 1, Len(messages) - 1))

\* the usage the outlet computes: <<>> is None, <<u>> the dict u
ExtractUsage(messages) ==
    LET assistant_message_obj == get_last_assistant_message_obj(messages)
    IN  IF assistant_message_obj = <<>> THEN <<>>
        ELSE LET info == assistant_message_obj[1].usage
                 input_tokens == OrCount(info.prompt_eval_count,
                                         info.prompt_tokens)
                 output_tokens == OrCount(info.eval_count,
                                          info.completion_tokens)
             IN  IF input_tokens # <<>> /\ output_tokens # <<>>
                 THEN <<[input |-> input_tokens[1], output |-> output_tokens[1],
                         unit |-> "TOKENS"]>>
                 ELSE <<>>

\* variant 1 outlet: model_value of the generation payload
ModelValue1(chat_id, body) ==
    LET known == chat_id \in DOMAIN model_names
        model_id == IF known THEN model_names[chat_id].id ELSE body.model
        model_name == IF known /\ model_names[chat_id].name # NONE
                      THEN model_names[chat_id].name ELSE "unknown"
    IN  IF valves.use_model_name THEN model_name ELSE model_id

\* variant 3 outlet: model_value of the generation payload
ModelValue3(chat_id, body) ==
    LET known == chat_id \in DOMAIN model_names
        model_id == IF known THEN model_names[chat_id].id ELSE "unknown"
        model_name == IF known THEN model_names[chat_id].name ELSE "unknown"
    IN  IF valves.use_model_name THEN model_name ELSE model_id

\* mutant of _build_tags: the task kind is appended for every task
_build_tags_every_task(task_name) ==
    IF valves.insert_tags THEN <<"open-webui", task_name>> ELSE <<>>

\* _build_tags(task_name)
_build_tags(task_name) ==
    IF valves.insert_tags
    THEN IF task_name \in {"user_response", "llm_response"}
         THEN <<"open-webui">>
         ELSE <<"open-webui", task_name>>
    ELSE <<>>

\* variant 1 inlet: the conversation key read from the metadata sub-object;
\* fresh is the value a uuid4 call yields
InletChatId1(metadata, fresh) ==
    LET chat_id == IF metadata.chat_id = NONE THEN fresh ELSE metadata.chat_id
    IN  IF chat_id = "local"
        THEN TempId(IF metadata.session_id = NONE THEN fresh
                    ELSE metadata.session_id)
        ELSE chat_id

\* variant 1 outlet: the conversation key read from the top level of the body
OutletChatId1(body, fresh) ==
    IF body.chat_id = "local"
    THEN TempId(IF body.session_id = NONE THEN fresh ELSE body.session_id)
    ELSE body.chat_id

\* variant 3: _extract_metadata(body).  No input carries a top-level
\* user_id, message_id, interface or type, and model is a string or absent,
\* so the synthesized metadata["model"] = {"id": ...} has no name.
_extract_metadata(body, fresh) ==
    IF body.metadata.present
    THEN body.metadata
    ELSE LET chat_id == Or(body.chat_id, Or(body.metadata.chat_id, fresh))
             session_id == Or(body.session_id, body.metadata.session_id)
         IN  [NoMetadata EXCEPT
                !.present = TRUE,
                !.chat_id = IF chat_id = "local" /\ session_id # NONE
                            THEN TempId(session_id) ELSE chat_id,
                !.session_id = body.session_id]

\* variant 3 outlet: the conversation key, None when the body carries none
OutletChatId3(body) ==
    LET chat_id == Or(body.chat_id, body.metadata.chat_id)
        session_id == Or(body.session_id, body.metadata.session_id)
    IN  IF chat_id = "local" /\ session_id # NONE
        THEN TempId(session_id) ELSE chat_id

\* a uuid4 value is consumed by the key resolution of the call
InletDrawsUuid1(body) ==
    body.metadata.chat_id = NONE
    \/ (body.metadata.chat_id = "local" /\ body.metadata.session_id = NONE)

InletDrawsUuid3(body) ==
    ~body.metadata.present /\ body.chat_id = NONE

OutletDrawsUuid1(body) ==
    body.chat_id = "local" /\ body.session_id = NONE

\* mutant of StoreModel1: the inlet writes no model record
StoreModel1Dropped(models, chat_id, model_id, model_info_name) == models

\* variant 1: the write of self.model_names[chat_id]
StoreModel1(models, chat_id, model_id, model_info_name) ==
    LET old == IF chat_id \in DOMAIN models THEN models[chat_id]
               ELSE [id |-> NONE, name |-> NONE]
    IN  Put(models, chat_id,
            [id |-> model_id,
             name |-> IF model_info_name # NONE THEN model_info_name
                      ELSE old.name])

\* variant 3: the write of self.model_names[chat_id]
StoreModel3(models, chat_id, model_id, model_info_name) ==
    Put(models, chat_id,
        IF model_id # NONE
        THEN [id |-> model_id,
              name |-> IF model_info_name # NONE THEN model_info_name
                       ELSE "unknown"]
        ELSE [id |-> "unknown", name |-> "unknown"])

\* mutant of StoreTrace: the handle langfuse.trace returned is not stored
StoreTraceDropped(traces, chat_id, trace) == traces

\* mutant of StoreTrace: the store is replaced by one holding the new
\* handle alone
StoreTraceAlone(traces, chat_id, trace) == [x \in {chat_id} |-> trace]

\* self.chat_traces[chat_id] = trace
StoreTrace(traces, chat_id, trace) == Put(traces, chat_id, trace)

\* mutant of OpenTrace: the store is written before the call is known to
\* have succeeded, so a failed open stays cached
OpenTraceCachesFailure(traces, chat_id, trace, raised) ==
    StoreTrace(traces, chat_id, trace)

\* try: trace = self.langfuse.trace(...); self.chat_traces[chat_id] = trace
\* except Exception: the store is not written
OpenTrace(traces, chat_id, trace, raised) ==
    IF raised THEN traces ELSE StoreTrace(traces, chat_id, trace)

\* the object langfuse.trace(...) returns: fresh on every call
NewTrace(chat_id) ==
    [key |-> chat_id,
     n |-> (IF chat_id \in DOMAIN opens THEN opens[chat_id] ELSE 0) + 1,
     client |-> langfuse]

\* a backend call made in this handler call raises
\* (self.langfuse is None: the attribute access self.langfuse.trace raises)
Raises(call, fails) ==
    call \in fails \/ (call = "trace" /\ langfuse = 0)

\* what a handler call does: the new stores, how it ends, the backend calls
\* it attempts in order, those that raised, the key it resolved, the trace
\* it used, the record it emitted on it, and the body as the call leaves it;
\* the task kind it classified and the tags it built (task NONE: not
\* reached), and of an emitted outlet record the usage and model value
Outcome(body) ==
    [traces |-> chat_traces, models |-> model_names, result |-> "return",
     error |-> NONE, calls |-> <<>>, failed |-> {}, key |-> NONE,
     okey |-> NONE, ran_inlet |-> FALSE, trace |-> NoHandle, emitted |-> NONE,
     body |-> body, task |-> NONE, tags |-> <<>>, usage |-> <<>>,
     model |-> NONE, model_field |-> FALSE]

(* ------------------------- variant 1: inlet ---------------------------- *)
inlet1_body(body, fails, fresh) ==
    LET chat_id == InletChatId1(body.metadata, fresh)
        \* metadata["chat_id"] = chat_id; body["metadata"] = metadata
        metadata1 == [body.metadata EXCEPT !.present = TRUE, !.chat_id = chat_id]
        models1 == StoreModel1(model_names, chat_id, body.model,
                               body.metadata.model_name)
        missing_keys == body.model = NONE \/ ~body.has_messages
        task_name == IF body.metadata.task = NONE THEN "user_response"
                     ELSE body.metadata.task
        tags_list == _build_tags(task_name)
        known == chat_id \in DOMAIN chat_traces
        first == IF ~known THEN <<"trace">>
                 ELSE IF tags_list # <<>> THEN <<"update_tags">> ELSE <<>>
        firstRaises == first # <<>> /\ Raises(first[1], fails)
        trace == IF known THEN chat_traces[chat_id] ELSE NewTrace(chat_id)
        traces1 == IF known THEN chat_traces
                   ELSE OpenTrace(chat_traces, chat_id, trace, firstRaises)
        record == IF task_name \in GENERATION_TASKS THEN "generation"
                  ELSE "event"
        metadata2 == [metadata1 EXCEPT !.type = task_name,
                                       !.interface = "open-webui"]
        o0 == [Outcome(body) EXCEPT !.models = models1, !.key = chat_id,
                                    !.ran_inlet = TRUE,
                                    !.body = [body EXCEPT !.metadata = metadata1]]
        o == [o0 EXCEPT !.task = task_name, !.tags = tags_list]
    IN  IF missing_keys
        THEN [o0 EXCEPT !.result = "raise", !.error = "ValueError"]
        ELSE IF firstRaises
        THEN [o EXCEPT !.traces = traces1,
                       !.result = "raise", !.error = "BackendError",
                       !.calls = first, !.failed = {first[1]}]
        ELSE IF Raises(record, fails)
        THEN [o EXCEPT !.traces = traces1, !.trace = trace,
                       !.result = "raise", !.error = "BackendError",
                       !.calls = first \o <<record>>,
                       !.model_field = (record = "generation"), !.failed = {record},
                       !.body = [body EXCEPT !.metadata = metadata2]]
        ELSE [o EXCEPT !.traces = traces1, !.trace = trace,
                       !.calls = first \o <<record>>,
                       !.model_field = (record = "generation"), !.emitted = record,
                       !.body = [body EXCEPT !.metadata = metadata2]]

(* ------------------------- variant 3: inlet ---------------------------- *)
inlet3_body(body, fails, fresh) ==
    LET metadata == _extract_metadata(body, fresh)
        chat_id == metadata.chat_id
        models1 == StoreModel3(model_names, chat_id, body.model,
                               metadata.model_name)
        \* body["messages"] = [...] when neither messages nor input is given
        body1 == [body EXCEPT !.metadata = metadata,
                              !.has_messages = @ \/ ~body.has_input]
        task_name == Or(metadata.task, Or(metadata.type, "user_response"))
        tags_list == _build_tags(task_name)
        known == chat_id \in DOMAIN chat_traces
        first == IF ~known THEN <<"trace">>
                 ELSE IF tags_list # <<>> THEN <<"update_tags">> ELSE <<>>
        firstRaises == first # <<>> /\ Raises(first[1], fails)
        trace == IF known THEN chat_traces[chat_id] ELSE NewTrace(chat_id)
        traces1 == IF known THEN chat_traces
                   ELSE OpenTrace(chat_traces, chat_id, trace, firstRaises)
        record == IF task_name \in GENERATION_TASKS THEN "generation"
                  ELSE "event"
        metadata2 == [metadata EXCEPT !.type = task_name,
                                      !.interface = Or(@, "open-webui")]
        o == [Outcome(body) EXCEPT !.models = models1, !.key = chat_id,
                                   !.ran_inlet = TRUE, !.body = body1,
                                   !.task = task_name, !.tags = tags_list]
    IN  IF ~known /\ firstRaises
        THEN \* except Exception: return body
             [o EXCEPT !.traces = traces1, !.calls = first,
                       !.failed = {"trace"}]
        ELSE [o EXCEPT !.traces = traces1, !.trace = trace,
                       !.calls = first \o <<record>>,
                       !.model_field = (record = "generation"),
                       !.failed = (IF firstRaises THEN {first[1]} ELSE {})
                                  \cup (IF Raises(record, fails) THEN {record}
                                        ELSE {}),
                       !.emitted = IF Raises(record, fails) THEN NONE
                                   ELSE record,
                       !.body = [body1 EXCEPT !.metadata = metadata2]]

(* ------------------------- variant 1: outlet --------------------------- *)
outlet1_body(body, fails, fresh, fresh2) ==
    LET chat_id == OutletChatId1(body, fresh)
        task_name == IF body.metadata.task = NONE THEN "llm_response"
                     ELSE body.metadata.task
        trace == chat_traces[chat_id]
        record == IF task_name \in GENERATION_TASKS THEN "generation_end"
                  ELSE "event"
        \* metadata = body.get("metadata", {}): a body without the key keeps
        \* none, the writes go to a dict of the call's own
        body2 == IF body.metadata.present
                 THEN [body EXCEPT !.metadata.type = task_name,
                                   !.metadata.interface = "open-webui"]
                 ELSE body
        usage == ExtractUsage(body.messages)
        model_value == IF record = "generation_end"
                       THEN ModelValue1(chat_id, body) ELSE NONE
        o == [Outcome(body) EXCEPT !.key = chat_id, !.okey = chat_id,
                                   !.trace = trace, !.task = task_name,
                                   !.tags = _build_tags(task_name)]
    IN  IF chat_id \notin DOMAIN chat_traces
        THEN \* return await self.inlet(body, user)
             [inlet1_body(body, fails, fresh2) EXCEPT !.okey = chat_id]
        ELSE IF ~body.has_messages
        THEN \* body["messages"]
             [o EXCEPT !.result = "raise", !.error = "KeyError"]
        ELSE IF Raises("update_output", fails)
        THEN [o EXCEPT !.result = "raise", !.error = "BackendError",
                       !.calls = <<"update_output">>,
                       !.failed = {"update_output"}]
        ELSE IF Raises(record, fails)
        THEN [o EXCEPT !.result = "raise", !.error = "BackendError",
                       !.calls = <<"update_output", record>>,
                       !.model_field = (record = "generation_end"),
                       !.failed = {record}, !.body = body2]
        ELSE [o EXCEPT !.calls = <<"update_output", record>>,
                       !.model_field = (record = "generation_end"),
                       !.emitted = record, !.body = body2,
                       !.usage = usage, !.model = model_value]

(* ------------------------- variant 3: outlet --------------------------- *)
\* the finally block: flush when a client is set; a failure is printed
Flush3(o, fails) ==
    IF langfuse # 0
    THEN [o EXCEPT !.calls = @ \o <<"flush">>,
                   !.failed = @ \cup (IF Raises("flush", fails)
                                      THEN {"flush"} ELSE {})]
    ELSE o

\* mutant of outlet3_body: the defensive outlet runs the inlet flow
outlet3_body_as_inlet(body, fails) ==
    inlet3_body(body, fails, Uuid(nUuid + 1))

outlet3_body(body, fails) ==
    LET chat_id == OutletChatId3(body)
        task_name == Or(body.metadata.task,
                        Or(body.metadata.type, "llm_response"))
        trace == chat_traces[chat_id]
        record == IF task_name \in GENERATION_TASKS THEN "generation_end"
                  ELSE "event"
        body2 == IF body.metadata.present
                 THEN [body EXCEPT !.metadata.type = task_name,
                                   !.metadata.interface = Or(@, "open-webui")]
                 ELSE body
        \* messages = body.get("messages", [])
        usage == ExtractUsage(IF body.has_messages THEN body.messages ELSE <<>>)
        model_value == IF record = "generation_end"
                       THEN ModelValue3(chat_id, body) ELSE NONE
        o0 == [Outcome(body) EXCEPT !.key = chat_id, !.okey = chat_id]
        o == [o0 EXCEPT !.task = task_name, !.tags = _build_tags(task_name)]
    IN  IF chat_id = NONE
        THEN Flush3(o0, fails)
        ELSE IF chat_id \notin DOMAIN chat_traces
        THEN Flush3(o, fails)
        ELSE Flush3([o EXCEPT
                       !.trace = trace,
                       !.usage = IF Raises(record, fails) THEN <<>> ELSE usage,
                       !.model = IF Raises(record, fails) THEN NONE
                                 ELSE model_value,
                       !.calls = <<"update_output", record>>,
                       !.model_field = (record = "generation_end"),
                       !.failed = {c \in {"update_output", record} :
                                      Raises(c, fails)},
                       !.emitted = IF Raises(record, fails) THEN NONE
                                   ELSE record,
                       !.body = body2], fails)

(* ------------------------------ inputs --------------------------------- *)
\* the conversation identifier and session token a body carries, at the top
\* level or in the metadata sub-object
Carried(body) ==
    <<Or(body.chat_id, body.metadata.chat_id),
      Or(body.session_id, body.metadata.session_id)>>

\* conversation identifiers a body carries: a persisted chat, the "local"
\* placeholder of a temporary chat, and a chat id that spells the
\* identifier a temporary chat is rewritten to; with its session id
IdPairs ==
    {<<NONE, NONE>>, <<"c1", "s1">>, <<"local", NONE>>, <<"local", "s1">>,
     <<"local", "s2">>, <<TempId("s1"), "s1">>}

\* the identifier in the metadata sub-object (the request of the host) or
\* at the top level of the body (the response of the host)
IdBodies ==
    {[NoBody EXCEPT !.metadata.present = TRUE, !.metadata.chat_id = p[1],
                    !.metadata.session_id = p[2]] : p \in IdPairs}
    \cup {[NoBody EXCEPT !.chat_id = p[1], !.session_id = p[2]] : p \in IdPairs}

\* the correlation inputs: every identifier shape, the required keys model
\* and messages given, the default task
Bodies ==
    {[b EXCEPT !.model = "gpt-4", !.has_messages = TRUE] : b \in IdBodies}

\* the backend calls that raise during one handler call
FailSets == {{}, {"trace"}}

\* the error-handling inputs: a body with no identifier or a persisted
\* chat's, a required key missing or not, a task that is tagged or not
ErrBodies ==
    {[b EXCEPT !.model = m[1], !.has_messages = m[2], !.metadata.task = m[3]] :
        b \in {x \in IdBodies : x.chat_id \in {NONE, "c1"}
                               /\ x.metadata.chat_id \in {NONE, "c1"}},
        m \in {<<"gpt-4", TRUE, NONE>>, <<"gpt-4", TRUE, "title_generation">>,
               <<NONE, TRUE, NONE>>, <<"gpt-4", FALSE, NONE>>}}

ErrFailSets ==
    {{}, {"trace"}, {"update_tags", "update_output"},
     {"generation", "generation_end", "event"}, {"flush"}}

\* the round-trip inputs: bodies that carry no conversation identifier, with
\* or without a metadata sub-object, with or without a session id
RoundBodies ==
    {[b EXCEPT !.session_id = s[1], !.metadata.session_id = s[2]] :
        b \in {x \in Bodies : Carried(x)[1] = NONE},
        s \in {<<NONE, NONE>>, <<"s1", NONE>>, <<NONE, "s1">>}}

\* the usage inputs: a token count is absent or one of 0..MaxTokens
Counts == {<<>>} \cup {<<n>> : n \in 0..MaxTokens}

UsageInfos ==
    [prompt_eval_count : Counts, prompt_tokens : Counts, eval_count : Counts,
     completion_tokens : Counts]

FullInfo == [NoInfo EXCEPT !.prompt_tokens = <<1>>, !.completion_tokens = <<2>>]

\* message lists: the assistant message last, followed by a user message,
\* absent, or preceded by an older assistant message
UsageMessages ==
    {<<[role |-> "user", usage |-> NoInfo], [role |-> "assistant", usage |-> i]>> :
        i \in UsageInfos}
    \cup {<<[role |-> "user", usage |-> NoInfo]>>,
          <<[role |-> "assistant", usage |-> FullInfo],
            [role |-> "user", usage |-> NoInfo]>>,
          <<[role |-> "assistant", usage |-> FullInfo],
            [role |-> "assistant", usage |-> NoInfo]>>}

\* the request of conversation c1 and the responses of conversation c1
UsageInlets == {b \in Bodies : b.metadata.chat_id = "c1"}

UsageBodies ==
    {[NoBody EXCEPT !.chat_id = "c1", !.session_id = "s1", !.model = "gpt-4",
                    !.has_messages = TRUE, !.messages = m,
                    !.metadata.present = t # NONE, !.metadata.task = t] :
        m \in UsageMessages, t \in {NONE, "title_generation"}}

\* the model inputs: requests of conversation c1 with a model id or none and
\* a model name in metadata.model or none, and generation responses of c1
\* whose own model field is either id
ModelInlets ==
    {[b EXCEPT !.model = m, !.metadata.model_name = n] :
        b \in {x \in Bodies : x.metadata.chat_id = "c1"},
        m \in {"gpt-4", "gpt-3.5", NONE}, n \in {NONE, "GPT-4"}}

ModelOutlets ==
    {[NoBody EXCEPT !.chat_id = "c1", !.session_id = "s1", !.model = m,
                    !.has_messages = TRUE] : m \in {"gpt-4", "gpt-3.5"}}

\* the task inputs: bodies of conversation c1, the identifier at the top
\* level and in metadata, with no task, the two response tasks or another
TaskBodies ==
    {[NoBody EXCEPT !.chat_id = "c1", !.session_id = "s1", !.model = "gpt-4",
                    !.has_messages = TRUE, !.metadata.present = TRUE,
                    !.metadata.chat_id = "c1", !.metadata.task = t] :
        t \in {NONE, "user_response", "llm_response", "title_generation"}}

TaskFailSets == {{}, {"generation", "generation_end", "event"}}

ValveSettings ==
    {[insert_tags |-> TRUE, use_model_name |-> FALSE],
     [insert_tags |-> FALSE, use_model_name |-> TRUE]}

SetLangfuseOutcomes == {"ok", "ctor_error", "unauthorized"}

\* the concurrent inlet calls and the locals of one that has not begun:
\* its position, body, chat_id, the outcome of its membership test, its
\* trace, whether a trace was stored for chat_id when it began, how it ended
Procs == 1..MaxProcs

NoCall ==
    [pc |-> "idle", body |-> NoBody, chat_id |-> NONE, found |-> FALSE,
     trace |-> NoHandle, unstored |-> FALSE, result |-> NONE]

\* the requests run concurrently: two persisted conversations
ConcBodies == {b \in Bodies : b.metadata.chat_id = "c1"}
    \cup {[b EXCEPT !.metadata.chat_id = "c2"] :
             b \in {x \in Bodies : x.metadata.chat_id = "c1"}}

(* ------------------------------ actions -------------------------------- *)
\* what the history keeps of a handler call
Report(op, arg, o) ==
    [op |-> op, arg |-> arg, result |-> o.result, error |-> o.error,
     calls |-> o.calls, failed |-> o.failed, key |-> o.key, okey |-> o.okey,
     ran_inlet |-> o.ran_inlet, trace |-> o.trace, emitted |-> o.emitted,
     body |-> o.body, task |-> o.task, tags |-> o.tags, usage |-> o.usage,
     model |-> o.model, model_field |-> o.model_field]

Init ==
    /\ variant \in {1, 3}
    /\ valves = [insert_tags |-> TRUE, use_model_name |-> FALSE]
    /\ langfuse = 0
    /\ chat_traces = EmptyDict
    /\ model_names = EmptyDict
    /\ nUuid = 0
    /\ nClients = 0
    /\ nCalls = 0
    /\ opens = EmptyDict
    /\ failedEver = FALSE
    /\ retry = {}
    /\ last = Report("init", NoBody, Outcome(NoBody))
    /\ running = [p \in Procs |-> NoCall]

\* set_langfuse(): the client is assigned before auth_check() runs; the
\* strict variant re-raises, the defensive variant prints and returns
set_langfuse(op, outcome) ==
    /\ nClients < MaxClients
    /\ langfuse' = IF outcome = "ctor_error" THEN langfuse ELSE nClients + 1
    /\ nClients' = IF outcome = "ctor_error" THEN nClients ELSE nClients + 1
    /\ last' = Report(op, NoBody,
                 [Outcome(NoBody) EXCEPT
                    !.result = IF outcome # "ok" /\ variant = 1
                               THEN "raise" ELSE "return",
                    !.error = CASE outcome = "ok" -> NONE
                                [] outcome = "unauthorized" -> "UnauthorizedError"
                                [] OTHER -> "Exception"])

\* the host calls on_startup() first and serves the pipeline only when it
\* returned; nothing is called after on_shutdown()
Live ==
    /\ last.op \notin {"init", "on_shutdown"}
    /\ ~(last.op = "on_startup" /\ last.result = "raise")

on_startup ==
    /\ last.op = "init"
    /\ \E outcome \in SetLangfuseOutcomes : set_langfuse("on_startup", outcome)
    /\ UNCHANGED <<variant, valves, chat_traces, model_names, nUuid, nCalls,
                   opens, failedEver, retry, running>>

\* the host writes the new valves, then calls on_valves_updated()
on_valves_updated ==
    /\ Live
    /\ \E v \in ValveSettings : valves' = v
    /\ \E outcome \in SetLangfuseOutcomes :
          set_langfuse("on_valves_updated", outcome)
    /\ UNCHANGED <<variant, chat_traces, model_names, nUuid, nCalls, opens,
                   failedEver, retry, running>>

\* on_shutdown(): flush when a client is set; a failure is not caught
on_shutdown ==
    /\ Live
    /\ \E fails \in {{}, {"flush"}} :
          /\ last' = Report("on_shutdown", NoBody,
                IF langfuse = 0 THEN Outcome(NoBody)
                ELSE [Outcome(NoBody) EXCEPT
                        !.calls = <<"flush">>,
                        !.failed = IF "flush" \in fails THEN {"flush"} ELSE {},
                        !.result = IF "flush" \in fails THEN "raise"
                                   ELSE "return",
                        !.error = IF "flush" \in fails THEN "BackendError"
                                  ELSE NONE])
          /\ failedEver' = (failedEver \/ (langfuse # 0 /\ "flush" \in fails))
    /\ UNCHANGED <<variant, valves, langfuse, chat_traces, model_names, nUuid,
                   nClients, nCalls, opens, retry, running>>

\* the effect of a handler call on the instance and on the history
Commit(op, body, o, drawn) ==
    /\ chat_traces' = o.traces
    /\ model_names' = o.models
    /\ nUuid' = nUuid + drawn
    /\ nCalls' = nCalls + 1
    /\ opens' = IF o.calls # <<>> /\ o.calls[1] = "trace" /\ langfuse # 0
                THEN Put(opens, o.key,
                         (IF o.key \in DOMAIN opens THEN opens[o.key] ELSE 0) + 1)
                ELSE opens
    /\ failedEver' = (failedEver \/ o.failed # {})
    /\ retry' = IF o.calls # <<>> /\ o.calls[1] = "trace"
                THEN IF "trace" \in o.failed THEN retry \cup {o.key}
                     ELSE retry \ {o.key}
                ELSE retry
    /\ last' = Report(op, body, o)
    /\ UNCHANGED <<variant, valves, langfuse, nClients, running>>

Count(b) == IF b THEN 1 ELSE 0

\* the handlers called on bodies of B with the calls of a set of F failing,
\* at most N handler calls in one behaviour
inlet1_upto(B, F, N) ==
    /\ variant = 1 /\ Live /\ nCalls < N
    /\ \E body \in B, fails \in F :
          /\ nUuid + Count(InletDrawsUuid1(body)) <= MaxUuid
          /\ Commit("inlet", body, inlet1_body(body, fails, Uuid(nUuid + 1)),
                    Count(InletDrawsUuid1(body)))

inlet3_upto(B, F, N) ==
    /\ variant = 3 /\ Live /\ nCalls < N
    /\ \E body \in B, fails \in F :
          /\ nUuid + Count(InletDrawsUuid3(body)) <= MaxUuid
          /\ Commit("inlet", body, inlet3_body(body, fails, Uuid(nUuid + 1)),
                    Count(InletDrawsUuid3(body)))

outlet1_upto(B, F, N) ==
    /\ variant = 1 /\ Live /\ nCalls < N
    /\ \E body \in B, fails \in F :
          LET d1 == Count(OutletDrawsUuid1(body))
              o == outlet1_body(body, fails, Uuid(nUuid + 1), Uuid(nUuid + d1 + 1))
              d2 == IF o.ran_inlet THEN Count(InletDrawsUuid1(body)) ELSE 0
          IN  /\ nUuid + d1 + d2 <= MaxUuid
              /\ Commit("outlet", body, o, d1 + d2)

outlet3_upto(B, F, N) ==
    /\ variant = 3 /\ Live /\ nCalls < N
    /\ \E body \in B, fails \in F :
          Commit("outlet", body, outlet3_body(body, fails), 0)

inlet1(B, F) == inlet1_upto(B, F, MaxCalls)

inlet3(B, F) == inlet3_upto(B, F, MaxCalls)

outlet1(B, F) == outlet1_upto(B, F, MaxCalls)

outlet3(B, F) == outlet3_upto(B, F, MaxCalls)

Lifecycle ==
    \/ on_startup
    \/ on_valves_updated
    \/ on_shutdown

Next ==
    \/ Lifecycle
    \/ inlet1(Bodies, FailSets)
    \/ inlet3(Bodies, FailSets)
    \/ outlet1(Bodies, FailSets)
    \/ outlet3(Bodies, FailSets)

Spec == Init /\ [][Next]_vars

\* the same handlers on the error-handling inputs
NextErr ==
    \/ Lifecycle
    \/ inlet1(ErrBodies, ErrFailSets)
    \/ inlet3(ErrBodies, ErrFailSets)
    \/ outlet1(ErrBodies, ErrFailSets)
    \/ outlet3(ErrBodies, ErrFailSets)

SpecErr == Init /\ [][NextErr]_vars

\* the host hands the body an inlet returned to inlet again
resubmit1(F) ==
    /\ last.op = "inlet" /\ last.result = "return"
    /\ inlet1({last.body}, F)

resubmit3(F) ==
    /\ last.op = "inlet" /\ last.result = "return"
    /\ inlet3({last.body}, F)

NextRound ==
    \/ Lifecycle
    \/ inlet1(RoundBodies, FailSets)
    \/ inlet3(RoundBodies, FailSets)
    \/ resubmit1(FailSets)
    \/ resubmit3(FailSets)

SpecRound == Init /\ [][NextRound]_vars

\* a request and the responses to it, no backend call failing
NextUsage ==
    \/ on_startup
    \/ inlet1(UsageInlets, {{}})
    \/ inlet3(UsageInlets, {{}})
    \/ outlet1(UsageBodies, {{}})
    \/ outlet3(UsageBodies, {{}})

SpecUsage == Init /\ [][NextUsage]_vars

\* requests and responses of one conversation, no backend call failing
NextModel ==
    \/ on_startup
    \/ on_valves_updated
    \/ inlet1_upto(ModelInlets, {{}}, MaxModelCalls)
    \/ inlet3_upto(ModelInlets, {{}}, MaxModelCalls)
    \/ outlet1_upto(ModelOutlets, {{}}, MaxModelCalls)
    \/ outlet3_upto(ModelOutlets, {{}}, MaxModelCalls)

SpecModel == Init /\ [][NextModel]_vars

\* the host hands the body an inlet returned, its metadata as the inlet
\* left it, to outlet
respond1(F) ==
    /\ last.op = "inlet" /\ last.result = "return"
    /\ outlet1({last.body}, F)

respond3(F) ==
    /\ last.op = "inlet" /\ last.result = "return"
    /\ outlet3({last.body}, F)

NextTask ==
    \/ Lifecycle
    \/ inlet1(TaskBodies, TaskFailSets)
    \/ inlet3(TaskBodies, TaskFailSets)
    \/ outlet1(TaskBodies, TaskFailSets)
    \/ outlet3(TaskBodies, TaskFailSets)
    \/ respond1(TaskFailSets)
    \/ respond3(TaskFailSets)

SpecTask == Init /\ [][NextTask]_vars

(* ------------------- inlet as interleaved steps ------------------------ *)
\* the statements of inlet up to the membership test: the key is resolved,
\* the model record written, the required keys found
inlet_begin(p) ==
    /\ Live
    /\ running[p].pc = "idle"
    /\ \E body \in ConcBodies :
          LET chat_id == IF variant = 1
                         THEN InletChatId1(body.metadata, Uuid(nUuid + 1))
                         ELSE _extract_metadata(body, Uuid(nUuid + 1)).chat_id
          IN  /\ model_names' =
                    IF variant = 1
                    THEN StoreModel1(model_names, chat_id, body.model,
                                     body.metadata.model_name)
                    ELSE StoreModel3(model_names, chat_id, body.model,
                                     body.metadata.model_name)
              /\ running' = [running EXCEPT ![p] =
                    [NoCall EXCEPT !.pc = "check", !.body = body,
                                   !.chat_id = chat_id,
                                   !.unstored = chat_id \notin DOMAIN chat_traces]]
    /\ UNCHANGED <<variant, valves, langfuse, chat_traces, nUuid, nClients,
                   nCalls, opens, failedEver, retry, last>>

\* if chat_id not in self.chat_traces: ... else: trace = self.chat_traces[chat_id]
inlet_check(p) ==
    /\ running[p].pc = "check"
    /\ LET found == running[p].chat_id \in DOMAIN chat_traces
       IN  running' = [running EXCEPT ![p] =
              [@ EXCEPT !.pc = IF found THEN "record" ELSE "open",
                        !.found = found,
                        !.trace = IF found THEN chat_traces[running[p].chat_id]
                                  ELSE NoHandle]]
    /\ UNCHANGED <<variant, valves, langfuse, chat_traces, model_names, nUuid,
                   nClients, nCalls, opens, failedEver, retry, last>>

\* trace = self.langfuse.trace(**trace_payload); a failure ends the call
inlet_open(p) ==
    /\ running[p].pc = "open"
    /\ IF Raises("trace", {})
       THEN /\ running' = [running EXCEPT ![p] =
                  [@ EXCEPT !.pc = "done",
                            !.result = IF variant = 1 THEN "raise"
                                       ELSE "return"]]
            /\ failedEver' = TRUE
            /\ opens' = opens
       ELSE /\ running' = [running EXCEPT ![p] =
                  [@ EXCEPT !.pc = "store",
                            !.trace = NewTrace(running[p].chat_id)]]
            /\ opens' = Put(opens, running[p].chat_id,
                            NewTrace(running[p].chat_id).n)
            /\ failedEver' = failedEver
    /\ UNCHANGED <<variant, valves, langfuse, chat_traces, model_names, nUuid,
                   nClients, nCalls, retry, last>>

\* self.chat_traces[chat_id] = trace
inlet_store(p) ==
    /\ running[p].pc = "store"
    /\ chat_traces' = StoreTrace(chat_traces, running[p].chat_id,
                                 running[p].trace)
    /\ running' = [running EXCEPT ![p] = [@ EXCEPT !.pc = "record"]]
    /\ UNCHANGED <<variant, valves, langfuse, model_names, nUuid, nClients,
                   nCalls, opens, failedEver, retry, last>>

\* the generation or event record on the call's trace; return body
inlet_record(p) ==
    /\ running[p].pc = "record"
    /\ running' = [running EXCEPT ![p] =
          [@ EXCEPT !.pc = "done", !.result = "return"]]
    /\ UNCHANGED <<variant, valves, langfuse, chat_traces, model_names, nUuid,
                   nClients, nCalls, opens, failedEver, retry, last>>

NextConc ==
    \/ on_startup
    \/ \E p \in Procs : inlet_begin(p)
    \/ \E p \in Procs : inlet_check(p)
    \/ \E p \in Procs : inlet_open(p)
    \/ \E p \in Procs : inlet_store(p)
    \/ \E p \in Procs : inlet_record(p)

SpecConc == Init /\ [][NextConc]_vars

(* ------------------------------ claims --------------------------------- *)
\* this step is an inlet or outlet call
HandlerStep == nCalls' = nCalls + 1

\* the backend calls a handler call attempted
Attempted(r) == {r.calls[i] : i \in 1..Len(r.calls)}

\* C1: an outlet whose conversation id resolves to c while no trace is stored
\* for c (no prior inlet), with a client set and no backend call failing,
\* leaves a trace stored under c and has emitted a generation/event record
\* on that trace.
C1_OutletWithoutInletSelfHeals ==
    [][(/\ HandlerStep
        /\ last'.op = "outlet"
        /\ last'.okey # NONE
        /\ last'.okey \notin DOMAIN chat_traces
        /\ langfuse # 0
        /\ last'.failed = {}
        /\ last'.result = "return")
       => (/\ last'.okey \in DOMAIN chat_traces'
           /\ last'.emitted # NONE
           /\ last'.trace = chat_traces'[last'.okey])]_vars

\* C2: when an inlet has stored or reused a trace and the next handler call
\* is an outlet whose body carries the same conversation identifier (and
\* session id), the outlet (or the inlet it re-runs) resolves the key the
\* inlet used and works on the inlet's trace handle without opening another
\* trace.
C2_OutletResolvesInletKey ==
    [][(/\ HandlerStep
        /\ last.op = "inlet" /\ last.result = "return" /\ last.failed = {}
        /\ last.trace # NoHandle
        /\ last'.op = "outlet" /\ last'.failed = {}
        /\ Carried(last.arg)[1] # NONE
        /\ (Carried(last.arg)[1] = "local" => Carried(last.arg)[2] # NONE)
        /\ Carried(last'.arg) = Carried(last.arg))
       => (/\ last'.key = last.key
           /\ last'.trace = last.trace
           /\ "trace" \notin Attempted(last')
           /\ chat_traces' = chat_traces)]_vars

\* C3: as long as no backend call has failed, langfuse.trace has been called
\* at most once for every conversation key, the handle that call returned is
\* the one stored under the key, and the last inlet or outlet that used a
\* trace used the stored handle.
C3_OpenOncePerConversation ==
    ~failedEver =>
        /\ DOMAIN chat_traces = DOMAIN opens
        /\ \A k \in DOMAIN opens :
              /\ opens[k] = 1
              /\ chat_traces[k].key = k
              /\ chat_traces[k].n = 1
        /\ (last.op \in {"inlet", "outlet"} /\ last.trace # NoHandle)
              => (/\ last.key \in DOMAIN chat_traces
                  /\ last.trace = chat_traces[last.key])

\* C3 witness: a second call for a conversation reused the stored handle and
\* only updated its tags
C3_Witness ==
    /\ ~failedEver
    /\ last.op = "inlet"
    /\ last.calls # <<>> /\ last.calls[1] = "update_tags"
    /\ last.key \in DOMAIN opens /\ opens[last.key] = 1
    /\ last.trace = chat_traces[last.key]

\* C4: outlet never raises: every outlet call on a body that has the keys
\* model and messages returns the body, whatever backend call fails.
C4_OutletNeverRaises ==
    (last.op = "outlet" /\ last.arg.model # NONE /\ last.arg.has_messages)
        => last.result = "return"

\* C5: every outlet call that returns, made with a client set, has attempted
\* a flush.
C5_OutletAlwaysFlushes ==
    (last.op = "outlet" /\ langfuse # 0 /\ last.result = "return")
        => "flush" \in Attempted(last)

\* C6: a conversation key whose open-trace call raised is not a key of
\* chat_traces, and the next inlet for that key that gets past validation
\* calls langfuse.trace again.
C6_FailedOpenNotCached ==
    [][HandlerStep =>
        /\ retry' \cap DOMAIN chat_traces' = {}
        /\ (/\ last'.op = "inlet"
            /\ last'.key \in retry
            /\ last'.error # "ValueError")
           => (last'.calls # <<>> /\ last'.calls[1] = "trace")]_vars

\* C6 witness: an inlet for a key whose earlier open-trace call raised has
\* called langfuse.trace again, this time with success
C6_Witness ==
    /\ last.op = "inlet"
    /\ nCalls = 2
    /\ last.calls # <<>> /\ last.calls[1] = "trace"
    /\ last.failed = {}
    /\ failedEver
    /\ last.key \in DOMAIN opens /\ opens[last.key] = 2
    /\ last.key \in DOMAIN chat_traces

\* C7: an inlet that raises the validation error has made no backend call
\* and has left chat_traces and model_names as they were.
C7_ValidationLeavesStateUnmodified ==
    [][(HandlerStep /\ last'.op = "inlet" /\ last'.error = "ValueError")
       => (/\ last'.calls = <<>>
           /\ chat_traces' = chat_traces
           /\ model_names' = model_names)]_vars

\* C8: the placeholder "local" is never a key of chat_traces or model_names.
C8_LocalNeverAKey ==
    "local" \notin (DOMAIN chat_traces \cup DOMAIN model_names)

\* C9: two consecutive inlets, one for the placeholder "local" and one for an
\* explicit chat id that is not the placeholder, never resolve to one key.
C9_PlaceholderDistinctFromExplicit ==
    [][(/\ HandlerStep
        /\ last.op = "inlet" /\ last'.op = "inlet"
        /\ Carried(last.arg)[1] = "local"
        /\ Carried(last'.arg)[1] \notin {NONE, "local"})
       => last'.key # last.key]_vars

\* C10: two consecutive inlets for the placeholder "local" whose session
\* tokens differ resolve to different keys.
C10_PlaceholderSessionsDistinct ==
    [][(/\ HandlerStep
        /\ last.op = "inlet" /\ last'.op = "inlet"
        /\ Carried(last.arg)[1] = "local" /\ Carried(last'.arg)[1] = "local"
        /\ Carried(last.arg)[2] # NONE /\ Carried(last'.arg)[2] # NONE
        /\ Carried(last.arg)[2] # Carried(last'.arg)[2])
       => last'.key # last.key]_vars

\* C11: after every inlet call, returned or raised at a backend call, the
\* body's metadata.chat_id is present (not None) and is the key under which
\* the call wrote model_names and looked up or stored chat_traces.
C11_BodyCarriesCorrelationKey ==
    (last.op = "inlet" /\ last.error # "ValueError")
        => (/\ last.body.metadata.present
            /\ last.body.metadata.chat_id # NONE
            /\ last.body.metadata.chat_id = last.key
            /\ last.key \in DOMAIN model_names)


\* C12: when an inlet was given a body that carries no conversation
\* identifier and returned with a trace, it has assigned an identifier and
\* written it into the body's metadata, and an inlet then given the returned
\* body resolves the same key and works on the same trace handle without
\* calling langfuse.trace.
C12_AssignedIdRoundTrips ==
    [][(/\ HandlerStep
        /\ last.op = "inlet" /\ last.result = "return" /\ last.failed = {}
        /\ last.trace # NoHandle
        /\ Carried(last.arg)[1] = NONE
        /\ last'.op = "inlet" /\ last'.failed = {}
        /\ last'.arg = last.body)
       => (/\ last.key # NONE
           /\ last.body.metadata.chat_id = last.key
           /\ last'.key = last.key
           /\ last'.trace = last.trace
           /\ "trace" \notin Attempted(last')
           /\ chat_traces' = chat_traces)]_vars

\* a token count resolved by trying one field, else the other
ResolvedCount(a, b) == IF a # <<>> THEN a ELSE b

\* the usage record a message list resolves to: both counts or none
ResolvedUsage(messages) ==
    LET obj == get_last_assistant_message_obj(messages)
        input == ResolvedCount(obj[1].usage.prompt_eval_count,
                               obj[1].usage.prompt_tokens)
        output == ResolvedCount(obj[1].usage.eval_count,
                                obj[1].usage.completion_tokens)
    IN  IF obj # <<>> /\ input # <<>> /\ output # <<>>
        THEN <<[input |-> input[1], output |-> output[1], unit |-> "TOKENS"]>>
        ELSE <<>>

\* C13: the generation-end or event record an outlet emits carries a usage
\* record exactly when the usage object of the last assistant message
\* resolves both an input count (prompt_eval_count, else prompt_tokens) and
\* an output count (eval_count, else completion_tokens), counts of 0
\* included, and then input and output are the resolved counts.
C13_UsageReportedWhenBothResolve ==
    (last.op = "outlet" /\ ~last.ran_inlet /\ last.emitted # NONE)
        => last.usage = ResolvedUsage(last.arg.messages)

\* C14: the tags a handler call builds for its task kind are a function of
\* the task kind and insert_tags alone: none when insert_tags is false,
\* ["open-webui"] for "user_response" and "llm_response", and
\* ["open-webui", task] in that order for any other task kind; building
\* them writes neither store (an outlet, which writes the stores nowhere
\* else, leaves chat_traces and model_names as they were).
C14_BuildTagsPure ==
    [][(HandlerStep /\ last'.task # NONE)
       => (/\ last'.tags =
                 IF ~valves.insert_tags THEN <<>>
                 ELSE IF last'.task \in {"user_response", "llm_response"}
                 THEN <<"open-webui">>
                 ELSE <<"open-webui", last'.task>>
           /\ (last'.op = "outlet" /\ ~last'.ran_inlet)
                 => (chat_traces' = chat_traces /\ model_names' = model_names))]_vars

\* C14 witness: an outlet for a task kind other than the two response kinds
\* built the base label followed by the task kind and emitted its event
C14_Witness ==
    /\ last.op = "outlet" /\ ~last.ran_inlet
    /\ valves.insert_tags
    /\ last.task = "title_generation"
    /\ last.tags = <<"open-webui", "title_generation">>
    /\ last.emitted = "event"

\* C15: an outlet whose body carries no conversation identifier (no chat_id
\* and no metadata.chat_id) is a no-op: it returns the body unchanged,
\* opens no trace, emits no record, and leaves chat_traces and model_names
\* as they were.
C15_OutletWithoutIdIsNoOp ==
    [][(HandlerStep /\ last'.op = "outlet" /\ Carried(last'.arg)[1] = NONE)
       => (/\ last'.result = "return"
           /\ last'.body = last'.arg
           /\ "trace" \notin Attempted(last')
           /\ last'.emitted = NONE
           /\ chat_traces' = chat_traces
           /\ model_names' = model_names)]_vars

\* C16: an inlet raises nothing but the validation error of the strict
\* variant: when a backend call it makes fails, it returns the body.
C16_InletBackendFailureReturns ==
    (last.op = "inlet" /\ last.result = "raise")
        => (variant = 1 /\ last.error = "ValueError")

\* C17: when two inlet calls for one conversation key, both begun while no
\* trace was stored for it, have run concurrently to their end without a
\* backend failure, langfuse.trace was called once for the key and both
\* calls used the handle stored under it.
C17_ConcurrentInletsOpenOnce ==
    \A p, q \in Procs :
        (/\ p # q
         /\ running[p].pc = "done" /\ running[q].pc = "done"
         /\ running[p].chat_id = running[q].chat_id
         /\ running[p].unstored /\ running[q].unstored
         /\ ~failedEver)
        => (/\ opens[running[p].chat_id] = 1
            /\ running[p].trace = chat_traces[running[p].chat_id]
            /\ running[q].trace = chat_traces[running[p].chat_id])

\* C18: when auth_check rejects the credentials (UnauthorizedError in
\* set_langfuse), on_startup and on_valves_updated fail with that error:
\* neither completes normally.
C18_UnauthorizedNotSwallowed ==
    (last.op \in {"on_startup", "on_valves_updated"}
        /\ last.error = "UnauthorizedError")
        => last.result = "raise"

\* C19: an inlet for a conversation that already has a model record
\* overwrites the id with the request's, and when the request carries no
\* model name it leaves the stored name as it was.
C19_InletKeepsStoredName ==
    [][(/\ HandlerStep
        /\ last'.op = "inlet"
        /\ last'.key \in DOMAIN model_names
        /\ last'.arg.model # NONE
        /\ last'.arg.metadata.model_name = NONE)
       => (/\ model_names'[last'.key].id = last'.arg.model
           /\ model_names'[last'.key].name = model_names[last'.key].name)]_vars

\* a field of a model record, "unknown" when none was recorded
Recorded(x) == IF x = NONE THEN "unknown" ELSE x

\* C20: an inlet that carries a model id leaves it as the id of the
\* conversation's model record (last write wins), and the model value of a
\* generation-end record an outlet emits for the conversation is the id of
\* that record, or its name when use_model_name is set, "unknown" when
\* none was recorded, whatever the model field of the response body.
C20_GenerationEndReplaysRecordedModel ==
    [][HandlerStep =>
        /\ (last'.op = "inlet" /\ last'.arg.model # NONE)
              => model_names'[last'.key].id = last'.arg.model
        /\ (last'.op = "outlet" /\ last'.emitted = "generation_end")
              => last'.model =
                    IF valves.use_model_name
                    THEN Recorded(model_names[last'.key].name)
                    ELSE Recorded(model_names[last'.key].id)]_vars

\* the sub-record calls of the backend, and those a handler call made
RecordCalls == {"generation", "generation_end", "event"}

RecordsOf(r) == SelectSeq(r.calls, LAMBDA c : c \in RecordCalls)

\* the call got to its record step holding a trace handle
ReachedRecord(r) ==
    /\ r.op \in {"inlet", "outlet"}
    /\ r.trace # NoHandle
    /\ r.result = "raise" => r.failed \cap RecordCalls # {}

\* C21: a handler call that reaches its record step with a trace handle
\* makes exactly one sub-record call: a generation (generation end in
\* outlet), its payload carrying a model field, exactly when the task kind
\* is "llm_response", otherwise an event without a model field; with no
\* task in the body the task kind is "user_response" in inlet and
\* "llm_response" in outlet.
C21_OneRecordByTaskKind ==
    ReachedRecord(last)
        => (/\ Len(RecordsOf(last)) = 1
            /\ RecordsOf(last)[1] =
                  IF last.task # "llm_response" THEN "event"
                  ELSE IF last.ran_inlet THEN "generation" ELSE "generation_end"
            /\ last.model_field = (last.task = "llm_response")
            /\ last.emitted \in {NONE, RecordsOf(last)[1]}
            /\ last.arg.metadata.task = NONE
                  => last.task = IF last.ran_inlet THEN "user_response"
                                 ELSE "llm_response")

\* C22: every key of chat_traces is a key of model_names, so a handler call
\* that found or stored a trace for its key has a model record for it.
C22_TraceKeysHaveModelRecord ==
    /\ DOMAIN chat_traces \subseteq DOMAIN model_names
    /\ (last.op \in {"inlet", "outlet"} /\ last.trace # NoHandle)
          => last.key \in DOMAIN model_names

\* C22 witness: an outlet found the trace of its conversation, and the model
\* record of that conversation is there
C22_Witness ==
    /\ last.op = "outlet" /\ ~last.ran_inlet
    /\ last.trace # NoHandle
    /\ last.key \in DOMAIN chat_traces
    /\ last.key \in DOMAIN model_names

\* C23: chat_traces and model_names only grow: no step removes a key of
\* either or replaces a stored handle by another, and a lifecycle step
\* (on_valves_updated replacing the client, on_shutdown) leaves both as
\* they were.
C23_StoresOnlyGrow ==
    [][/\ DOMAIN chat_traces \subseteq DOMAIN chat_traces'
       /\ \A k \in DOMAIN chat_traces : chat_traces'[k] = chat_traces[k]
       /\ DOMAIN model_names \subseteq DOMAIN model_names'
       /\ ~HandlerStep
             => (chat_traces' = chat_traces /\ model_names' = model_names)]_vars

\* C23 witness: after on_valves_updated replaced the client, a handler call
\* used the handle the previous client created, still stored under its key
C23_Witness ==
    /\ last.op \in {"inlet", "outlet"}
    /\ langfuse = 2
    /\ last.trace # NoHandle /\ last.trace.client = 1
    /\ last.key \in DOMAIN chat_traces
    /\ chat_traces[last.key] = last.trace

\* C24: an outlet that finds a trace stored for its conversation key does
\* not re-run inlet and leaves chat_traces and model_names as they were;
\* the defensive outlet changes neither on any path, the strict outlet
\* only when it re-runs inlet.
C24_OutletOnlyReadsStores ==
    [][(HandlerStep /\ last'.op = "outlet")
       => (/\ (last'.okey \in DOMAIN chat_traces /\ last'.okey # NONE)
                 => ~last'.ran_inlet
           /\ variant = 3 => ~last'.ran_inlet
           /\ ~last'.ran_inlet
                 => (chat_traces' = chat_traces /\ model_names' = model_names))]_vars

\* C24 witness: a strict outlet found the stored trace, made its backend
\* calls on it, and the stores still hold what the inlet left
C24_Witness ==
    /\ variant = 1
    /\ last.op = "outlet" /\ ~last.ran_inlet
    /\ last.trace # NoHandle
    /\ last.calls # <<>>
    /\ last.key \in DOMAIN chat_traces /\ chat_traces[last.key] = last.trace
    /\ last.key \in DOMAIN model_names
=============================================================================
